---------------------------- MODULE Spec2Model ----------------------------
(***************************************************************************)
(* A model of src.ts/abi/coders/abstract-coder.ts: the Result container    *)
(* with its deferred errors, the Writer and the Reader.                    *)
(*                                                                         *)
(* JavaScript values are records tagged by "kind".  Indices are 0-based as *)
(* in the source; a TLA+ sequence keeps the element of index i at i + 1.   *)
(* A byte string (Uint8Array) is a sequence of numbers in 0..255.          *)
(***************************************************************************)
EXTENDS Integers, Sequences, FiniteSets, TLC

VARIABLES
    given,       \* the items and keys Result.fromItems was called with
    result,      \* the Result built by Result.fromItems, or NoResult
    outcome,     \* what the last operation on the Result returned or threw
    data,        \* Writer.#data: the sequence of chunks
    dataLength,  \* Writer.#dataLength
    handles,     \* the chunk indices captured by writeUpdatableValue closures
    wlast,       \* the last Writer operation, its input and what it returned
    rdata,       \* Reader.#data of the reader and of its sub-reader
    roffset,     \* Reader.#offset of each
    allowLoose,  \* Reader.allowLoose of each
    rlast        \* the last Reader operation, its input and what it returned

resultVars == <<given, result, outcome>>
writerVars == <<data, dataLength, handles, wlast>>
readerVars == <<rdata, roffset, allowLoose, rlast>>
vars == <<given, result, outcome, data, dataLength, handles, wlast,
          rdata, roffset, allowLoose, rlast>>

\* export const WordSize: number = 32
WordSize == 32

(***************************************************************************)
(* Bounds of the model.                                                    *)
(***************************************************************************)
\* the longest flat, named Result
MaxLen == 3
\* the most slots, over all depths, of a Result with nested Results
MaxSlots == 4
\* the most chunks a Writer is given
MaxChunks == 3
\* the longest Reader buffer is MaxWords words and three bytes
MaxWords == 2

(***************************************************************************)
(* JavaScript values.                                                      *)
(***************************************************************************)
Undefined == [kind |-> "undefined"]
Val(n) == [kind |-> "value", v |-> n]
\* an Error object; its own "error" property is Undefined unless one was set
Err(message, error) == [kind |-> "error", message |-> message, error |-> error]
\* a plain Array
Arr(items) == [kind |-> "array", items |-> items]
\* names[index] when no name is given (null)
Null == "<null>"

Returned(v) == [kind |-> "return", value |-> v]
Thrown(e) == [kind |-> "throw", error |-> e]

isError(v) == v.kind = "error"

\* Array.prototype.indexOf, 0-based, -1 when absent
indexOf(seq, x) ==
    IF \E i \in 1..Len(seq) : seq[i] = x
    THEN (CHOOSE i \in 1..Len(seq) : seq[i] = x /\ \A j \in 1..(i - 1) : seq[j] # x) - 1
    ELSE -1

(***************************************************************************)
(* Result                                                                  *)
(***************************************************************************)
\* throwError(name, error): the wrapped error, which carries `error`
throwError(name, error) ==
    Thrown(Err("deferred error during ABI decoding triggered accessing " \o name, error))

\* nameCounts.get(name): how many entries of names are that string
nameCounts(names, name) == Cardinality({ i \in 1..Len(names) : names[i] = name })

\* the constructor called with the guard (wrap = true): the items, and a
\* name kept only where it is a string that occurs once
Result_newDropsLater(items, names) ==
    [kind |-> "result", items |-> items,
     names |-> [ i \in 1..Len(items) |->
                   IF i <= Len(names) /\ names[i] # Null
                      /\ \A j \in 1..(i - 1) : names[j] # names[i]
                   THEN names[i] ELSE Null ]]

Result_new(items, names) ==
    [kind |-> "result", items |-> items,
     names |-> [ i \in 1..Len(items) |->
                   IF i <= Len(names) /\ names[i] # Null
                      /\ nameCounts(names, names[i]) = 1
                   THEN names[i] ELSE Null ]]

\* static fromItems(items, keys); keys absent is keys = << >>
Result_fromItems(items, keys) == Result_new(items, keys)

\* the Proxy's get trap for a property that is a decimal index
Result_getIndex(r, index) ==
    IF index < 0 \/ index >= Len(r.items)
    THEN Thrown(Err("out of result range", Undefined))
    ELSE LET item == r.items[index + 1]
         IN IF isError(item)
            THEN throwError("index " \o ToString(index), item)
            ELSE Returned(item)

\* getValue(name); JSON.stringify(name) quotes the name
Result_getValue(r, name) ==
    LET index == indexOf(r.names, name)
    IN IF index = -1 THEN Returned(Undefined)
       ELSE LET value == r.items[index + 1]
            IN IF isError(value)
               THEN throwError("property \"" \o name \o "\"", value.error)
               ELSE Returned(value)

\* toArray(): forEach throws at the first Error, then Array.of(this)
Result_toArray(r) ==
    LET bad == { i \in 1..Len(r.items) : isError(r.items[i]) }
    IN IF bad # {}
       THEN LET i == CHOOSE i \in bad : \A j \in bad : i <= j
            IN throwError("index " \o ToString(i - 1), r.items[i])
       ELSE Returned(Arr(<<r>>))

(***************************************************************************)
(* checkResultErrors                                                       *)
(***************************************************************************)
\* Array.isArray(object): a Result is an Array, and so is its Proxy
isArray(object) == object.kind \in {"result", "array"}

\* object[key] for a key that for..in gave: through the Proxy for a Result
getKey(object, k) ==
    IF object.kind = "result" THEN Result_getIndex(object, k)
    ELSE Returned(object.items[k + 1])

\* checkErrors(path, object), as the entries it pushes, in order; the keys
\* of for..in are the indices in ascending order, as decimal strings
RECURSIVE checkErrors(_, _)
RECURSIVE checkErrorsFrom(_, _, _)
checkErrorsFrom(path, object, k) ==
    IF k >= Len(object.items) THEN << >>
    ELSE LET childPath == Append(path, ToString(k))
             got == getKey(object, k)
             here == IF got.kind = "throw"
                     THEN << [path |-> childPath, error |-> got.error] >>
                     ELSE checkErrors(childPath, got.value)
         IN here \o checkErrorsFrom(path, object, k + 1)

\* a sweep that looks at the root's own slots only
checkErrorsShallow(path, object) ==
    IF ~isArray(object) \/ path # << >> THEN << >>
    ELSE checkErrorsFrom(path, object, 0)

checkErrors(path, object) ==
    IF ~isArray(object) THEN << >> ELSE checkErrorsFrom(path, object, 0)

checkResultErrors(r) == Returned(Arr(checkErrors(<< >>, r)))

(***************************************************************************)
(* The Results the model builds: flat ones with names, and unnamed ones    *)
(* with nested Results.                                                    *)
(***************************************************************************)
NoResult == [kind |-> "none"]

SeqUpTo(S, n) == UNION { [1..k -> S] : k \in 0..n }

\* a decoded value, a captured decode error, and a captured error that has
\* an "error" property of its own
FlatValues ==
    { Val(1), Val(2), Err("e1", Undefined), Err("e2", Err("cause", Undefined)) }

Names == {"a", "b"}
\* the names looked up: the names given, and one no slot has
LookupNames == Names \cup {"c"}

\* items with a parallel sequence of optional names, or with no keys
FlatInputs ==
    { [items |-> items, keys |-> keys] :
        items \in SeqUpTo(FlatValues, MaxLen),
        keys \in UNION { [1..k -> Names \cup {Null}] : k \in 0..MaxLen } }

NestedLeaves == { Val(1), Err("e1", Undefined) }

\* the item sequences of n slots in all, a nested Result counting as one slot
\* and its own slots
RECURSIVE Forest(_)
Forest(n) ==
    IF n = 0 THEN { << >> }
    ELSE UNION { { <<v>> \o rest :
                     v \in (IF k = 1 THEN NestedLeaves ELSE {})
                           \cup { Result_fromItems(f, << >>) : f \in Forest(k - 1) },
                     rest \in Forest(n - k) } : k \in 1..n }

NestedInputs ==
    { [items |-> items, keys |-> << >>] :
        items \in UNION { Forest(n) : n \in 0..MaxSlots } }

ResultInputs ==
    { in \in FlatInputs : in.keys = << >> \/ Len(in.keys) = Len(in.items) }
    \cup NestedInputs

(***************************************************************************)
(* The operations on the Result.                                           *)
(***************************************************************************)
Did(op, arg, res) == [op |-> op, arg |-> arg, res |-> res]

FromItems ==
    /\ result = NoResult
    /\ \E in \in ResultInputs :
         /\ given' = in
         /\ result' = Result_fromItems(in.items, in.keys)
         /\ outcome' = Did("fromItems", Undefined, Returned(Undefined))
    /\ UNCHANGED <<writerVars, readerVars>>

\* result[index], for the indices of the Result and the one past them
GetIndex ==
    /\ result # NoResult
    /\ \E index \in 0..Len(result.items) :
         outcome' = Did("index", index, Result_getIndex(result, index))
    /\ UNCHANGED <<given, result, writerVars, readerVars>>

GetValue ==
    /\ result # NoResult
    /\ \E name \in LookupNames :
         outcome' = Did("getValue", name, Result_getValue(result, name))
    /\ UNCHANGED <<given, result, writerVars, readerVars>>

ToArray ==
    /\ result # NoResult
    /\ outcome' = Did("toArray", Undefined, Result_toArray(result))
    /\ UNCHANGED <<given, result, writerVars, readerVars>>

CheckResultErrors ==
    /\ result # NoResult
    /\ outcome' = Did("checkResultErrors", Undefined, checkResultErrors(result))
    /\ UNCHANGED <<given, result, writerVars, readerVars>>

WriterIdle ==
    /\ data = << >> /\ dataLength = 0 /\ handles = {}
    /\ wlast = Did("new", Undefined, Returned(Undefined))

ReaderIdle ==
    /\ rdata = << >> /\ roffset = << >> /\ allowLoose = << >>
    /\ rlast = Did("none", Undefined, Returned(Undefined))

ResultInit ==
    /\ given = [items |-> << >>, keys |-> << >>]
    /\ result = NoResult
    /\ outcome = Did("none", Undefined, Returned(Undefined))
    /\ WriterIdle /\ ReaderIdle

ResultNext ==
    \/ FromItems
    \/ GetIndex
    \/ GetValue
    \/ ToArray
    \/ CheckResultErrors

SpecResult == ResultInit /\ [][ResultNext]_vars

(***************************************************************************)
(* Bytes, hex strings and numbers (utils)                                  *)
(***************************************************************************)
Zeros(n) == [ i \in 1..n |-> 0 ]

\* const Padding = new Uint8Array(WordSize)
Padding == Zeros(WordSize)

\* Uint8Array.prototype.slice(start) and slice(start, end), within the array
sliceFrom(bytes, start) == SubSeq(bytes, start + 1, Len(bytes))
slice(bytes, start, end) ==
    SubSeq(bytes, start + 1, IF end > Len(bytes) THEN Len(bytes) ELSE end)

\* hexlify(bytes): two hex digits a byte, high digit first (digits as 0..15)
hexlify(bytes) ==
    [ i \in 1..(2 * Len(bytes)) |->
        IF i % 2 = 1 THEN bytes[(i + 1) \div 2] \div 16 ELSE bytes[i \div 2] % 16 ]

\* getBytesCopy(hex string)
getBytesCopy(hex) ==
    [ i \in 1..(Len(hex) \div 2) |-> 16 * hex[2 * i - 1] + hex[2 * i] ]

\* concat(datas): the hex string of the chunks, one after the other
RECURSIVE concat(_)
concat(datas) ==
    IF datas = << >> THEN << >> ELSE hexlify(Head(datas)) \o concat(Tail(datas))

\* a number m * 256^e, so that a number of 32 or 33 bytes can be written
Num(m, e) == [m |-> m, e |-> e]

\* the big-endian bytes of m > 0, with no leading zero byte
RECURSIVE bigEndian(_)
bigEndian(m) == IF m = 0 THEN << >> ELSE Append(bigEndian(m \div 256), m % 256)

\* toBeArray(value): the shortest big-endian byte string, empty for zero
toBeArray(value) ==
    IF value.m = 0 THEN << >> ELSE bigEndian(value.m) \o Zeros(value.e)

\* toBigInt(bytes): the number, as its shortest big-endian byte string
RECURSIVE toBigInt(_)
toBigInt(bytes) ==
    IF bytes = << >> THEN << >>
    ELSE IF Head(bytes) = 0 THEN toBigInt(Tail(bytes)) ELSE bytes

(***************************************************************************)
(* getValue and the Writer                                                 *)
(***************************************************************************)
BufferOverrun(message) == Thrown(Err(message, Undefined))

\* a getValue that pads on the right
getValuePadsRight(value) ==
    LET bytes == toBeArray(value)
    IN IF Len(bytes) > WordSize THEN BufferOverrun("value out-of-bounds")
       ELSE IF Len(bytes) # WordSize
       THEN Returned(getBytesCopy(concat(<< bytes, sliceFrom(Padding, Len(bytes) % WordSize) >>)))
       ELSE Returned(bytes)

\* a getValue that does not pad a number shorter than a word
getValueUnpadded(value) ==
    LET bytes == toBeArray(value)
    IN IF Len(bytes) > WordSize THEN BufferOverrun("value out-of-bounds")
       ELSE Returned(bytes)

\* getValue(value): the word of a number, or the assert's error
getValue(value) ==
    LET bytes == toBeArray(value)
    IN IF Len(bytes) > WordSize THEN BufferOverrun("value out-of-bounds")
       ELSE IF Len(bytes) # WordSize
       THEN Returned(getBytesCopy(concat(<< sliceFrom(Padding, Len(bytes) % WordSize), bytes >>)))
       ELSE Returned(bytes)

\* get data(): the hex string of all chunks
Writer_data(chunks) == concat(chunks)

\* #writeData(data), on the chunks
Writer_writeData(chunks, bytes) == Append(chunks, bytes)

\* a writeBytes padding that adds a whole word to an aligned byte string
Writer_padFullWord(bytes) ==
    getBytesCopy(concat(<< bytes, sliceFrom(Padding, Len(bytes) % WordSize) >>))

\* writeBytes: the bytes, padded on the right to the nearest WordSize
Writer_pad(bytes) ==
    LET paddingOffset == Len(bytes) % WordSize
    IN IF paddingOffset # 0
       THEN getBytesCopy(concat(<< bytes, sliceFrom(Padding, paddingOffset) >>))
       ELSE bytes

\* a closure that writes one chunk before the one it reserved
Writer_updateBefore(chunks, offset, word) ==
    IF offset = 0 THEN [chunks EXCEPT ![1] = word] ELSE [chunks EXCEPT ![offset] = word]

\* the closure writeUpdatableValue returns: this.#data[offset] = word
Writer_update(chunks, offset, word) == [chunks EXCEPT ![offset + 1] = word]

\* the byte strings written, of a length about each word boundary, no byte 0
BytesLens == {0, WordSize - 1, WordSize, WordSize + 1}
BytesInputs == { [ i \in 1..n |-> 1 + (i % 255) ] : n \in BytesLens }

\* the numbers written: 0, a number of two bytes, one of WordSize bytes and
\* one of a byte more
Values == { Num(0, 0), Num(258, 0), Num(1, WordSize - 1), Num(1, WordSize) }
\* the numbers a reserved word is updated with
UpdateValues == { Num(0, 0), Num(258, 0), Num(1, WordSize) }

\* the chunks of the writer appended: a number's word and a padded byte
\* string
OtherWriters == { << getValue(Num(258, 0)).value, Writer_pad(<<97, 98>>) >> }

AppendWriter ==
    /\ Len(data) < MaxChunks
    /\ \E other \in OtherWriters :
         LET bytes == getBytesCopy(Writer_data(other))
         IN /\ data' = Writer_writeData(data, bytes)
            /\ dataLength' = dataLength + Len(bytes)
            /\ wlast' = Did("appendWriter", bytes, Returned(Len(bytes)))
    /\ UNCHANGED <<handles, resultVars, readerVars>>

WriteBytes ==
    /\ Len(data) < MaxChunks
    /\ \E value \in BytesInputs :
         LET bytes == Writer_pad(value)
         IN /\ data' = Writer_writeData(data, bytes)
            /\ dataLength' = dataLength + Len(bytes)
            /\ wlast' = Did("writeBytes", value, Returned(Len(bytes)))
    /\ UNCHANGED <<handles, resultVars, readerVars>>

WriteValue ==
    /\ Len(data) < MaxChunks
    /\ \E value \in Values :
         LET word == getValue(value)
         IN IF word.kind = "throw"
            THEN /\ wlast' = Did("writeValue", value, word)
                 /\ UNCHANGED <<data, dataLength>>
            ELSE /\ data' = Writer_writeData(data, word.value)
                 /\ dataLength' = dataLength + Len(word.value)
                 /\ wlast' = Did("writeValue", value, Returned(Len(word.value)))
    /\ UNCHANGED <<handles, resultVars, readerVars>>

WriteUpdatableValue ==
    /\ Len(data) < MaxChunks
    /\ LET offset == Len(data)
       IN /\ data' = Append(data, Padding)
          /\ dataLength' = dataLength + WordSize
          /\ handles' = handles \cup {offset}
          /\ wlast' = Did("writeUpdatableValue", Undefined, Returned(offset))
    /\ UNCHANGED <<resultVars, readerVars>>

\* a closure returned by writeUpdatableValue is called
UpdateValue ==
    /\ \E offset \in handles, value \in UpdateValues :
         LET word == getValue(value)
         IN /\ wlast' = Did("update", [offset |-> offset, value |-> value],
                            IF word.kind = "throw" THEN word ELSE Returned(Undefined))
            /\ data' = IF word.kind = "throw" THEN data
                       ELSE Writer_update(data, offset, word.value)
    /\ UNCHANGED <<dataLength, handles, resultVars, readerVars>>

ResultIdle ==
    /\ given = [items |-> << >>, keys |-> << >>]
    /\ result = NoResult
    /\ outcome = Did("none", Undefined, Returned(Undefined))

WriterInit == WriterIdle /\ ResultIdle /\ ReaderIdle

WriterNext ==
    \/ AppendWriter
    \/ WriteBytes
    \/ WriteValue
    \/ WriteUpdatableValue
    \/ UpdateValue

SpecWriter == WriterInit /\ [][WriterNext]_vars

(***************************************************************************)
(* The Reader.  Reader 1 is the reader constructed over the buffer; reader *)
(* 2, when there is one, is the sub-reader it returned last.               *)
(***************************************************************************)
\* Number.MAX_SAFE_INTEGER is 2^53 - 1: seven bytes, the first at most 31
\* toNumber(bytes): getNumber(toBigInt(bytes)), which throws on overflow
toNumber(bytes) ==
    LET n == toBigInt(bytes)
    IN IF Len(n) > 7 \/ (Len(n) = 7 /\ n[1] > 31)
       THEN Thrown(Err("overflow", Undefined))
       ELSE Returned(n)

\* Math.ceil(length / WordSize) * WordSize
alignedLength(length) ==
    (IF length % WordSize = 0 THEN length \div WordSize
     ELSE length \div WordSize + 1) * WordSize

\* a #peekBytes that does not look at the reader's allowLoose
Reader_peekBytesAnyLoose(bytes, offset, allow, length, loose) ==
    IF offset + alignedLength(length) > Len(bytes)
    THEN IF loose /\ offset + length <= Len(bytes)
         THEN Returned(slice(bytes, offset, offset + length))
         ELSE BufferOverrun("data out-of-bounds")
    ELSE Returned(slice(bytes, offset, offset + alignedLength(length)))

\* #peekBytes(0, length, loose) of a reader with #data = bytes, #offset =
\* offset and allowLoose = allow
Reader_peekBytes(bytes, offset, allow, length, loose) ==
    IF offset + alignedLength(length) > Len(bytes)
    THEN IF allow /\ loose /\ offset + length <= Len(bytes)
         THEN Returned(slice(bytes, offset, offset + length))
         ELSE BufferOverrun("data out-of-bounds")
    ELSE Returned(slice(bytes, offset, offset + alignedLength(length)))

\* a readBytes that advances by the aligned length whatever was peeked
Reader_consumedAligned(bytes, length) == alignedLength(length)

\* readBytes: this.#offset += bytes.length
Reader_consumed(bytes, length) == Len(bytes)

\* a subReader that windows from the start of the buffer
Reader_subReaderFromStart(bytes, cursor, offset) == sliceFrom(bytes, offset)

\* subReader(offset): this.#data.slice(this.#offset + offset), within the
\* buffer or empty past its end
Reader_subReader(bytes, cursor, offset) ==
    IF cursor + offset >= Len(bytes) THEN << >>
    ELSE sliceFrom(bytes, cursor + offset)

\* readBytes(length, loose) of reader r: what it returns or throws, and the
\* cursor after it
Reader_readBytes(r, length, loose) ==
    LET bytes == Reader_peekBytes(rdata[r], roffset[r], allowLoose[r], length, loose)
    IN IF bytes.kind = "throw" THEN [res |-> bytes, offset |-> roffset[r]]
       ELSE [res |-> Returned(slice(bytes.value, 0, length)),
             offset |-> roffset[r] + Reader_consumed(bytes.value, length)]

\* the buffers read: whole words, and whole words with three bytes more;
\* one with no zero byte, one whose words are small numbers
BufferLens == { w * WordSize + t : w \in 0..MaxWords, t \in {0, 3} }
Buffers ==
    { [ i \in 1..n |-> 1 + (i % 255) ] : n \in BufferLens }
    \cup { [ i \in 1..n |-> IF i % WordSize = 0 THEN i \div WordSize
                           ELSE IF i > (n \div WordSize) * WordSize THEN 1 + (i % 255)
                           ELSE 0 ] : n \in BufferLens }

ReadLens == {0, 3, WordSize, WordSize + 1}
SubOffsets == {0, 3, WordSize}

ReaderIds == 1..Len(rdata)

ReadBytes ==
    /\ \E r \in ReaderIds, length \in ReadLens, loose \in BOOLEAN :
         LET got == Reader_readBytes(r, length, loose)
         IN /\ roffset' = [roffset EXCEPT ![r] = got.offset]
            /\ rlast' = Did("readBytes",
                            [r |-> r, length |-> length, loose |-> loose], got.res)
    /\ UNCHANGED <<rdata, allowLoose, resultVars, writerVars>>

ReadValue ==
    /\ \E r \in ReaderIds :
         LET got == Reader_readBytes(r, WordSize, FALSE)
         IN /\ roffset' = [roffset EXCEPT ![r] = got.offset]
            /\ rlast' = Did("readValue", [r |-> r],
                            IF got.res.kind = "throw" THEN got.res
                            ELSE Returned(toBigInt(got.res.value)))
    /\ UNCHANGED <<rdata, allowLoose, resultVars, writerVars>>

ReadIndex ==
    /\ \E r \in ReaderIds :
         LET got == Reader_readBytes(r, WordSize, FALSE)
         IN /\ roffset' = [roffset EXCEPT ![r] = got.offset]
            /\ rlast' = Did("readIndex", [r |-> r],
                            IF got.res.kind = "throw" THEN got.res
                            ELSE toNumber(got.res.value))
    /\ UNCHANGED <<rdata, allowLoose, resultVars, writerVars>>

\* reader 1's subReader(offset): new Reader(bytes, this.allowLoose)
SubReader ==
    /\ \E offset \in SubOffsets :
         /\ rdata' = << rdata[1], Reader_subReader(rdata[1], roffset[1], offset) >>
         /\ roffset' = << roffset[1], 0 >>
         /\ allowLoose' = << allowLoose[1], allowLoose[1] >>
         /\ rlast' = Did("subReader", [r |-> 1, offset |-> offset], Returned(2))
    /\ UNCHANGED <<resultVars, writerVars>>

\* new Reader(data, allowLoose)
ReaderInit ==
    /\ \E bytes \in Buffers, allow \in BOOLEAN :
         /\ rdata = << bytes >>
         /\ roffset = << 0 >>
         /\ allowLoose = << allow >>
    /\ rlast = Did("new", Undefined, Returned(1))
    /\ ResultIdle /\ WriterIdle

ReaderNext ==
    \/ ReadBytes
    \/ ReadValue
    \/ ReadIndex
    \/ SubReader

SpecReader == ReaderInit /\ [][ReaderNext]_vars

(***************************************************************************)
(* Claims about the Result.                                                *)
(***************************************************************************)
\* the index of the only slot the keys given to fromItems name `name`
SlotNamed(name) == CHOOSE i \in 1..Len(given.keys) : given.keys[i] = name

\* C1: construction by Result.fromItems never raises; an access to slot i, by
\* its index or by its unique name through getValue, raises if and only if
\* the slot holds a captured error, the error raised carries that captured
\* error as its cause, and an access to any other slot returns its value.
C1_AccessOf(item) ==
    /\ outcome.res.kind = "throw" <=> isError(item)
    /\ outcome.res.kind = "throw" => outcome.res.error.error = item
    /\ outcome.res.kind = "return" => outcome.res.value = item

C1_DeferredErrorOnAccess ==
    /\ outcome.op = "fromItems" => outcome.res.kind = "return"
    /\ (outcome.op = "index" /\ outcome.arg < Len(result.items))
         => C1_AccessOf(result.items[outcome.arg + 1])
    /\ (outcome.op = "getValue" /\ nameCounts(given.keys, outcome.arg) = 1)
         => C1_AccessOf(result.items[SlotNamed(outcome.arg)])

\* C2: toArray() raises on the first slot holding a deferred error; when no
\* slot holds one it returns a plain sequence of the Result's length whose
\* k-th element is the Result's k-th slot value.
C2_ToArraySnapshot ==
    outcome.op = "toArray" =>
        LET bad == { i \in 1..Len(result.items) : isError(result.items[i]) }
        IN IF bad = {}
           THEN /\ outcome.res.kind = "return"
                /\ outcome.res.value.kind = "array"
                /\ Len(outcome.res.value.items) = Len(result.items)
                /\ \A k \in 1..Len(result.items) :
                     outcome.res.value.items[k] = result.items[k]
           ELSE /\ outcome.res.kind = "throw"
                /\ \E i \in bad :
                     /\ \A j \in bad : i <= j
                     /\ outcome.res.error.error = result.items[i]

\* C3, as claimed: a name given at two or more indices makes getValue(name)
\* return undefined while positional access to each of those indices returns
\* its value; a name given at exactly one index i makes getValue(name)
\* return the value of slot i; an unknown name returns undefined.
C3_NamesAsClaimed ==
    /\ outcome.op = "getValue" =>
         IF nameCounts(given.keys, outcome.arg) = 1
         THEN outcome.res = Returned(result.items[SlotNamed(outcome.arg)])
         ELSE outcome.res = Returned(Undefined)
    /\ (outcome.op = "index" /\ outcome.arg < Len(given.keys)
          /\ nameCounts(given.keys, given.keys[outcome.arg + 1]) >= 2)
         => outcome.res = Returned(result.items[outcome.arg + 1])

\* what an access to a slot gives: its value, or a raise when the slot holds
\* a deferred error
C3_Gives(item) ==
    IF isError(item) THEN outcome.res.kind = "throw"
    ELSE outcome.res = Returned(item)

\* C3, amended: as C3, except that an access (by unique name or by index)
\* to a slot holding a deferred error raises instead of returning.
C3_NameCollision ==
    /\ outcome.op = "getValue" =>
         IF nameCounts(given.keys, outcome.arg) = 1
         THEN C3_Gives(result.items[SlotNamed(outcome.arg)])
         ELSE outcome.res = Returned(Undefined)
    /\ (outcome.op = "index" /\ outcome.arg < Len(given.keys)
          /\ nameCounts(given.keys, given.keys[outcome.arg + 1]) >= 2)
         => C3_Gives(result.items[outcome.arg + 1])

\* getValue of a name given at two indices whose slots hold different
\* values has returned undefined
C3_Witness ==
    /\ outcome.op = "getValue"
    /\ nameCounts(given.keys, outcome.arg) >= 2
    /\ \E i, j \in 1..Len(given.keys) :
         /\ i # j
         /\ given.keys[i] = outcome.arg /\ given.keys[j] = outcome.arg
         /\ ~isError(result.items[i]) /\ result.items[i] # result.items[j]
    /\ outcome.res = Returned(Undefined)

\* the slot an index path leads to from r, through nested Results only
RECURSIVE SlotAt(_, _)
SlotAt(r, p) ==
    IF p = << >> THEN r
    ELSE IF r.kind # "result" \/ p[1] >= Len(r.items) THEN Undefined
    ELSE SlotAt(r.items[p[1] + 1], Tail(p))

MaxWidth == IF MaxLen > MaxSlots THEN MaxLen ELSE MaxSlots
IndexPaths == UNION { [1..n -> 0..(MaxWidth - 1)] : n \in 1..MaxSlots }

\* the paths of the slots, at any depth, whose access raises
PoisonedPaths(r) == { p \in IndexPaths : isError(SlotAt(r, p)) }

\* the path as for..in gives it: each index as its decimal string
KeysOf(p) == [ i \in 1..Len(p) |-> ToString(p[i]) ]

\* C4: checkResultErrors never raises and returns exactly one {path, error}
\* entry for each slot, at any depth, whose access would raise, and no other
\* entry; path is the sequence of indices from the root to the slot, and
\* error is what the access raises.
C4_CheckResultErrors ==
    outcome.op = "checkResultErrors" =>
        /\ outcome.res.kind = "return"
        /\ LET entries == outcome.res.value.items
               poisoned == PoisonedPaths(result)
           IN /\ Len(entries) = Cardinality(poisoned)
              /\ \A p \in poisoned :
                   \E k \in 1..Len(entries) :
                      /\ entries[k].path = KeysOf(p)
                      /\ entries[k].error.error = SlotAt(result, p)
              /\ \A k \in 1..Len(entries) :
                   \E p \in poisoned : entries[k].path = KeysOf(p)
              /\ Cardinality(poisoned) = 1 => Len(entries) = 1

\* the sweep has found a poisoned slot of the root and one of a nested Result
C4_Witness ==
    /\ outcome.op = "checkResultErrors"
    /\ outcome.res.kind = "return"
    /\ \E j, k \in 1..Len(outcome.res.value.items) :
         /\ Len(outcome.res.value.items[j].path) = 1
         /\ Len(outcome.res.value.items[k].path) = 2

(***************************************************************************)
(* Claims about the Writer.                                                *)
(***************************************************************************)
\* the materialized output, as bytes
Output(chunks) == getBytesCopy(Writer_data(chunks))

\* the bytes before chunk number offset (0-based)
RECURSIVE BytesBefore(_, _)
BytesBefore(chunks, offset) ==
    IF offset = 0 THEN 0
    ELSE BytesBefore(chunks, offset - 1) + Len(chunks[offset])

\* n rounded up to a multiple of WordSize
Aligned(n) == ((n + WordSize - 1) \div WordSize) * WordSize

\* the word of a number that fits: its big-endian bytes after zero bytes
WordOf(value) == Zeros(WordSize - Len(toBeArray(value))) \o toBeArray(value)

Fits(value) == Len(toBeArray(value)) <= WordSize

IsPrefix(a, b) == Len(a) <= Len(b) /\ SubSeq(b, 1, Len(a)) = a

\* C6: writeUpdatableValue appends one zero-filled word and returns a
\* handle; calling the handle later with a value that fits a word, after any
\* other writes, replaces exactly the reserved word of the output by the
\* value's big-endian bytes left-padded to a word, and changes no other byte
\* of the output nor the total length.
C6_UpdatableValue ==
    [][ /\ wlast'.op = "writeUpdatableValue" =>
             /\ Output(data') = Output(data) \o Zeros(WordSize)
             /\ handles' = handles \cup {wlast'.res.value}
             /\ BytesBefore(data', wlast'.res.value) = Len(Output(data))
        /\ (wlast'.op = "update" /\ Fits(wlast'.arg.value)) =>
             LET at == BytesBefore(data, wlast'.arg.offset)
                 old == Output(data)
             IN /\ wlast'.res.kind = "return"
                /\ Output(data') =
                     SubSeq(old, 1, at) \o WordOf(wlast'.arg.value)
                       \o SubSeq(old, at + WordSize + 1, Len(old))
                /\ dataLength' = dataLength
      ]_vars

\* a handle taken before a later write has been called with a number that
\* is not zero, and its word is neither the first nor the last of the output
C6_Witness ==
    /\ wlast.op = "update"
    /\ wlast.res.kind = "return"
    /\ wlast.arg.value.m # 0
    /\ wlast.arg.offset > 0
    /\ wlast.arg.offset + 1 < Len(data)
    /\ data[wlast.arg.offset + 1] = WordOf(wlast.arg.value)

\* C7: writeBytes of n bytes advances the total length by n rounded up to a
\* multiple of 32 and returns that number, appending the input followed by
\* zero bytes only; writeValue of a number that fits a word advances the
\* total length by 32 and returns 32.
C7_WordAlignment ==
    [][ /\ wlast'.op = "writeBytes" =>
             LET n == Len(wlast'.arg)
             IN /\ dataLength' = dataLength + Aligned(n)
                /\ wlast'.res = Returned(Aligned(n))
                /\ Output(data') = Output(data) \o wlast'.arg \o Zeros(Aligned(n) - n)
        /\ (wlast'.op = "writeValue" /\ Fits(wlast'.arg)) =>
             /\ dataLength' = dataLength + 32
             /\ wlast'.res = Returned(32)
      ]_vars

\* a byte string of exactly a word was written after another word
C7_Witness ==
    /\ wlast.op = "writeBytes"
    /\ Len(wlast.arg) = WordSize
    /\ Len(data) >= 2
    /\ dataLength = 2 * WordSize
    /\ wlast.res = Returned(WordSize)

\* C9, as claimed: the total length never decreases and the output read at
\* any point is a prefix of the output read at any later point.
C9_PrefixAsClaimed ==
    [][ dataLength' >= dataLength /\ IsPrefix(Output(data), Output(data')) ]_vars

\* the positions (from 1) of the output's bytes in a word reserved by
\* writeUpdatableValue
Reserved(chunks, hs) ==
    UNION { (BytesBefore(chunks, h) + 1)..(BytesBefore(chunks, h) + WordSize) : h \in hs }

\* C9, amended: the total length never decreases, and the output read at any
\* point agrees with the output read at any later point at every byte that
\* is not in a word reserved by writeUpdatableValue.
C9_AppendOnly ==
    [][ \A before \in {Output(data)}, after \in {Output(data')},
           reserved \in {Reserved(data, handles)} :
          /\ dataLength' >= dataLength
          /\ Len(after) >= Len(before)
          /\ \A i \in 1..Len(before) : i \notin reserved => after[i] = before[i]
      ]_vars

\* a reserved word between two written chunks has been overwritten
C9_Witness ==
    /\ wlast.op = "update"
    /\ wlast.res.kind = "return"
    /\ Len(data) = 3
    /\ handles = {1}
    /\ data[2] # Padding
    /\ data[1] # Padding /\ data[3] # Padding

(***************************************************************************)
(* Claims about the Reader.                                                *)
(***************************************************************************)
\* the last operation was a read (readBytes, readValue or readIndex)
IsRead(last) == last.op \in {"readBytes", "readValue", "readIndex"}

OverrunThrown(res) == res.kind = "throw" /\ res.error.message = "data out-of-bounds"

\* C5: readBytes(length, loose) at cursor c over a buffer of L bytes, with
\* aligned the length rounded up to a multiple of 32: succeeds consuming
\* aligned bytes if c + aligned <= L; otherwise succeeds consuming exactly
\* length bytes if loose is true, allowLoose is set and c + length <= L;
\* otherwise fails with a buffer overrun.  On success it returns the length
\* bytes of the buffer from c.  So a loose read of 3 bytes from a buffer that
\* ends 3 bytes after the cursor succeeds with allowLoose and fails without.
C5_ReadBytes ==
    [][ rlast'.op = "readBytes" =>
          LET r == rlast'.arg.r
              length == rlast'.arg.length
              c == roffset[r]
              L == Len(rdata[r])
              aligned == Aligned(length)
              res == rlast'.res
          IN /\ IF c + aligned <= L
                THEN res.kind = "return" /\ roffset'[r] = c + aligned
                ELSE IF rlast'.arg.loose /\ allowLoose[r] /\ c + length <= L
                THEN res.kind = "return" /\ roffset'[r] = c + length
                ELSE OverrunThrown(res) /\ roffset'[r] = c
             /\ res.kind = "return" => res.value = SubSeq(rdata[r], c + 1, c + length)
             /\ (length = 3 /\ L = c + 3 /\ rlast'.arg.loose)
                  => (res.kind = "return" <=> allowLoose[r])
      ]_vars

\* a loose read of the 3 bytes that end the buffer, after a word was read,
\* has succeeded
C5_Witness ==
    /\ rlast.op = "readBytes"
    /\ rlast.arg.length = 3 /\ rlast.arg.loose
    /\ rlast.res.kind = "return"
    /\ Len(rlast.res.value) = 3
    /\ roffset[rlast.arg.r] = Len(rdata[rlast.arg.r])
    /\ roffset[rlast.arg.r] = WordSize + 3

\* C8: subReader(offset) returns a new Reader over the parent's bytes from
\* (parent cursor + offset) to the end, with cursor 0 and the parent's
\* allowLoose; creating it changes neither the parent's cursor nor its
\* buffer, and a read on one of the two readers never changes the other's
\* cursor or buffer.
C8_SubReader ==
    [][ /\ rlast'.op = "subReader" =>
             /\ rdata'[2] = SubSeq(rdata[1], roffset[1] + rlast'.arg.offset + 1,
                                   Len(rdata[1]))
             /\ roffset'[2] = 0
             /\ allowLoose'[2] = allowLoose[1]
             /\ rdata'[1] = rdata[1] /\ roffset'[1] = roffset[1]
        /\ IsRead(rlast') =>
             \A q \in ReaderIds :
                q # rlast'.arg.r => roffset'[q] = roffset[q] /\ rdata'[q] = rdata[q]
      ]_vars

\* the parent has read a word, returned a sub-reader three bytes on, and
\* the sub-reader has read a word while the parent's cursor stayed
C8_Witness ==
    /\ Len(rdata) = 2
    /\ IsRead(rlast) /\ rlast.arg.r = 2 /\ rlast.res.kind = "return"
    /\ roffset = << WordSize, WordSize >>
    /\ Len(rdata[2]) = Len(rdata[1]) - WordSize - 3
    /\ rdata[2][1] = rdata[1][WordSize + 4]

\* C10: a Reader's cursor is always between 0 and the length of its buffer
\* and never decreases, whatever readBytes, readValue, readIndex and
\* subReader calls are made; a read that fails with a buffer overrun leaves
\* the cursor unchanged.
C10_Cursor ==
    /\ [](\A r \in ReaderIds : 0 <= roffset[r] /\ roffset[r] <= Len(rdata[r]))
    /\ [][ /\ \A r \in ReaderIds :
                (r = 1 \/ rlast'.op # "subReader") => roffset'[r] >= roffset[r]
           /\ (IsRead(rlast') /\ OverrunThrown(rlast'.res)) => roffset' = roffset
         ]_vars

\* a loose read has moved a cursor to the end of a buffer that is not a
\* whole number of words, and a read after it has failed
C10_Witness ==
    /\ IsRead(rlast) /\ OverrunThrown(rlast.res)
    /\ roffset[rlast.arg.r] = Len(rdata[rlast.arg.r])
    /\ roffset[rlast.arg.r] % WordSize = 3

\* the last Writer call failed because its number exceeds one word
ValueOutOfBounds(last) ==
    /\ last.op \in {"writeValue", "update"}
    /\ last.res.kind = "throw"
    /\ last.res.error.message = "value out-of-bounds"

\* C11: in every state reached by appendWriter, writeBytes, writeValue,
\* writeUpdatableValue and handle calls, those that fail because the number
\* exceeds one word included, the Writer's tracked total length is the sum
\* of the lengths of its chunks, which is the byte length of its
\* materialized output.
C11_TotalLength ==
    /\ dataLength = BytesBefore(data, Len(data))
    /\ dataLength = Len(Output(data))
    /\ 2 * dataLength = Len(Writer_data(data))

\* a handle call has failed on a number of more than a word, in a writer of
\* three chunks whose reserved word an earlier handle call had filled
C11_Witness ==
    /\ ValueOutOfBounds(wlast) /\ wlast.op = "update"
    /\ Len(data) = 3
    /\ data[wlast.arg.offset + 1] # Padding
    /\ \E k \in 1..Len(data) : Len(data[k]) # WordSize
    /\ dataLength > 2 * WordSize

=============================================================================
